---------------------------- MODULE Spec2Model ----------------------------
(***************************************************************************)
(* Model of spacex-dash-app.py: a Dash dashboard that loads a CSV of       *)
(* launch records once at startup, derives the slider statistics and the   *)
(* dropdown options, and serves two callbacks (build_pie, update_scatter)  *)
(* that filter / aggregate the immutable table.                            *)
(*                                                                         *)
(* Payload masses are floats in the program.  They are modelled as exact   *)
(* fixed-point numbers: a payload value p stands for p / Scale kilograms,  *)
(* so that masses that are not whole numbers exist and int() truncates.    *)
(* The column 'Booster Version Category' is only forwarded to the chart    *)
(* library as a marker symbol and is left out of the records.              *)
(***************************************************************************)
EXTENDS Integers, Sequences, FiniteSets, TLC

\* ----- bounds of the model ----------------------------------------------
MaxRows    == 2      \* rows of the CSV file
MaxPayload == 3      \* largest payload mass, in units of 1/Scale kg
Scale      == 2      \* fixed-point resolution: units per kilogram

\* slider / callback arguments range over whole kilograms 0..MaxKg
MaxKg == (MaxPayload \div Scale) + 1

\* site names of the data set, in the order sorted() gives them
SiteOrder == <<"CCAFS LC-40", "KSC LC-39A">>
Sites     == {SiteOrder[i] : i \in DOMAIN SiteOrder}

ALL  == "ALL"        \* sentinel value of the 'All Sites' option
None == "None"       \* Python None: a cleared dropdown / an omitted argument

Unbound == 0 - 1     \* a module-level name that has not been assigned yet

VARIABLES
    fileExists,      \* os.path.exists(DATA_PATH)
    csv,             \* the rows of the file on disk
    pc,              \* "start" | "ready" | "serving" | "aborted"
    error,           \* the exception raised last, or "none"
    spacex_df,       \* the global table
    min_payload, max_payload, q1, q2, q3,
    site_options,    \* values of the dropdown options
    site_dropdown,   \* current value of the dropdown
    payload_slider,  \* current value <<low, high>> of the range slider
    pie_df,          \* the frame build_pie handed to px.pie
    pie_fig,         \* figure shown in 'success-pie-chart'
    scatter_fig      \* records shown in 'success-payload-scatter-chart'

vars == <<fileExists, csv, pc, error, spacex_df, min_payload, max_payload,
          q1, q2, q3, site_options, site_dropdown, payload_slider,
          pie_df, pie_fig, scatter_fig>>

stats == <<min_payload, max_payload, q1, q2, q3, site_options>>

\* ----- helpers ----------------------------------------------------------
RECURSIVE SumSeq(_)
SumSeq(s) == IF s = <<>> THEN 0 ELSE Head(s) + SumSeq(Tail(s))

\* int(x) for the rational x = num / den, den > 0: truncation toward zero
IntTrunc(num, den) ==
    IF num >= 0 THEN num \div den ELSE 0 - ((0 - num) \div den)

Column(df, name) == [i \in DOMAIN df |-> df[i][name]]

SeqMin(s) == CHOOSE x \in {s[i] : i \in DOMAIN s} :
                 \A y \in {s[i] : i \in DOMAIN s} : x <= y
SeqMax(s) == CHOOSE x \in {s[i] : i \in DOMAIN s} :
                 \A y \in {s[i] : i \in DOMAIN s} : x >= y

\* Series.quantile(k/4) with linear interpolation, times 4 (exact)
Quantile4(s, k) ==
    LET v   == SortSeq(s, LAMBDA a, b : a < b)
        h   == (Len(v) - 1) * k
        lo  == h \div 4
        rem == h % 4
        hi  == IF rem = 0 THEN lo ELSE lo + 1
    IN  4 * v[lo + 1] + (v[hi + 1] - v[lo + 1]) * rem

\* the label mapping with its two labels exchanged
OutcomeLabel_swapped(c) == IF c = 1 THEN "Failure" ELSE "Success"

\* class -> Outcome label
OutcomeLabel(c) == IF c = 1 THEN "Success" ELSE "Failure"

\* pd.read_csv followed by the pre-processing that adds the Outcome column
Preprocess(rows) ==
    [i \in DOMAIN rows |->
        [Flight_Number |-> rows[i].Flight_Number,
         Launch_Site   |-> rows[i].Launch_Site,
         Payload_Mass  |-> rows[i].Payload_Mass,
         class         |-> rows[i].class,
         Outcome       |-> OutcomeLabel(rows[i].class)]]

\* sorted(spacex_df['Launch Site'].unique()) / the group keys of a groupby
SortedSites(df) ==
    SelectSeq(SiteOrder, LAMBDA s : \E i \in DOMAIN df : df[i].Launch_Site = s)

SiteOptions(df) == <<ALL>> \o SortedSites(df)

\* the rows the file can hold: Flight Number is the row's position
CsvRow == [Launch_Site : Sites, Payload_Mass : 0..MaxPayload, class : {0, 1}]
CsvFiles ==
    UNION {{[i \in 1..n |->
                [Flight_Number |-> i,
                 Launch_Site   |-> f[i].Launch_Site,
                 Payload_Mass  |-> f[i].Payload_Mass,
                 class         |-> f[i].class]] : f \in [1..n -> CsvRow]}
           : n \in 0..MaxRows}

NoFig == [title |-> <<>>, labels |-> <<>>, values |-> <<>>]

Init ==
    /\ fileExists \in BOOLEAN
    /\ csv \in (IF fileExists THEN CsvFiles ELSE {<<>>})
    /\ pc = "start"
    /\ error = "none"
    /\ spacex_df = <<>>
    /\ min_payload = Unbound /\ max_payload = Unbound
    /\ q1 = Unbound /\ q2 = Unbound /\ q3 = Unbound
    /\ site_options = <<>>
    /\ site_dropdown = None
    /\ payload_slider = <<>>
    /\ pie_df = <<>>
    /\ pie_fig = NoFig
    /\ scatter_fig = <<>>

\* ----- the chart library, as far as the callbacks use it -----------------
\* px.pie(frame, names=..., values=...): one slice entry per row of the
\* frame; without a values column every row counts 1
px_pie(frame, names, values, title) ==
    [title  |-> title,
     labels |-> Column(frame, names),
     values |-> IF values = None THEN [i \in DOMAIN frame |-> 1]
                ELSE Column(frame, values)]

\* what the rendered pie shows for a label: the sum of its entries
SliceValue(fig, label) ==
    SumSeq([i \in DOMAIN fig.labels |->
               IF fig.labels[i] = label THEN fig.values[i] ELSE 0])

\* px.scatter(df, x="Payload Mass (kg)", y="Outcome", hover_data=[...]):
\* one point per row of the frame
px_scatter(df) ==
    [i \in DOMAIN df |->
        [x             |-> df[i].Payload_Mass,
         y             |-> df[i].Outcome,
         Flight_Number |-> df[i].Flight_Number,
         Launch_Site   |-> df[i].Launch_Site]]

\* the group sizes taken over all rows instead of the successful ones
SuccessCounts_all_rows(df) ==
    LET keys == SortedSites(df)
    IN  [k \in DOMAIN keys |->
            [Launch_Site |-> keys[k],
             counts |-> Len(SelectSeq(df, LAMBDA r : r.Launch_Site = keys[k]))]]

\* df[df['class'] == 1].groupby('Launch Site').size().reset_index(name='counts')
SuccessCounts(df) ==
    LET ok == SelectSeq(df, LAMBDA r : r.class = 1)
        keys == SortedSites(ok)
    IN  [k \in DOMAIN keys |->
            [Launch_Site |-> keys[k],
             counts |-> Len(SelectSeq(ok, LAMBDA r : r.Launch_Site = keys[k]))]]

\* the site comparison inverted
SiteFilter_other_sites(df, site) == SelectSeq(df, LAMBDA r : r.Launch_Site # site)

\* df[df['Launch Site'] == site]; comparing with None matches no row
SiteFilter(df, site) == SelectSeq(df, LAMBDA r : r.Launch_Site = site)

\* the payload mask with an exclusive upper bound
PayloadFilter_exclusive(df, low, high) ==
    SelectSeq(df, LAMBDA r : /\ r.Payload_Mass >= low * Scale
                             /\ r.Payload_Mass < high * Scale)

\* df[(df['Payload Mass (kg)'] >= low) & (df['Payload Mass (kg)'] <= high)]
PayloadFilter(df, low, high) ==
    SelectSeq(df, LAMBDA r : /\ r.Payload_Mass >= low * Scale
                             /\ r.Payload_Mass <= high * Scale)

\* ----- the callbacks ----------------------------------------------------
\* build_pie reading the first row of the selected site: raises when the
\* selection matches no row
build_pie_first_row(site) ==
    IF site = ALL
    THEN LET success_counts == SuccessCounts(spacex_df)
         IN  [raised |-> "none",
              frame  |-> success_counts,
              fig    |-> px_pie(success_counts, "Launch_Site", "counts",
                                <<"Total Successful Launches by Site">>)]
    ELSE LET specific == SiteFilter(spacex_df, site)
         IN  IF specific = <<>>
             THEN [raised |-> "IndexError", frame |-> <<>>, fig |-> NoFig]
             ELSE [raised |-> "none",
                   frame  |-> specific,
                   fig    |-> px_pie(specific, "Outcome", None,
                                     <<"Success vs Failure for", site>>)]

build_pie(site) ==
    IF site = ALL
    THEN LET success_counts == SuccessCounts(spacex_df)
         IN  [raised |-> "none",
              frame  |-> success_counts,
              fig    |-> px_pie(success_counts, "Launch_Site", "counts",
                                <<"Total Successful Launches by Site">>)]
    ELSE LET specific == SiteFilter(spacex_df, site)
         IN  [raised |-> "none",
              frame  |-> specific,
              fig    |-> px_pie(specific, "Outcome", None,
                                <<"Success vs Failure for", site>>)]

\* update_scatter applying the site comparison to the sentinel as well
update_scatter_no_sentinel(site, payload_range) ==
    IF Len(payload_range) # 2
    THEN [raised |-> "ValueError", fig |-> <<>>]
    ELSE LET low  == payload_range[1]
             high == payload_range[2]
             df_payload  == PayloadFilter(spacex_df, low, high)
             df_filtered == SiteFilter(df_payload, site)
         IN  [raised |-> "none", fig |-> px_scatter(df_filtered)]

update_scatter(site, payload_range) ==
    IF Len(payload_range) # 2
    THEN [raised |-> "ValueError", fig |-> <<>>]
    ELSE LET low  == payload_range[1]
             high == payload_range[2]
             df_payload  == PayloadFilter(spacex_df, low, high)
             df_filtered == IF site # ALL THEN SiteFilter(df_payload, site)
                            ELSE df_payload
         IN  [raised |-> "none", fig |-> px_scatter(df_filtered)]

\* the scatter callback declared without its slider Input
CallbacksOf_no_slider_input(input) ==
    CASE input = "site-dropdown"  -> {"build_pie", "update_scatter"}
      [] input = "payload-slider" -> {}
      [] input = "page-load"      -> {"build_pie", "update_scatter"}

\* the callbacks Dash runs when a component's value changes (the Input
\* declarations of the decorators); on page load it runs all of them
CallbacksOf(input) ==
    CASE input = "site-dropdown"  -> {"build_pie", "update_scatter"}
      [] input = "payload-slider" -> {"update_scatter"}
      [] input = "page-load"      -> {"build_pie", "update_scatter"}

\* one synchronous round of callbacks with the given control values: a
\* callback that returns replaces its figure, one that raises leaves it
RunCallbacks(input, site, range) ==
    LET cbs == CallbacksOf(input)
        p   == build_pie(site)
        s   == update_scatter(site, range)
        pOk == "build_pie" \in cbs /\ p.raised = "none"
        sOk == "update_scatter" \in cbs /\ s.raised = "none"
    IN  /\ pie_df'  = IF pOk THEN p.frame ELSE pie_df
        /\ pie_fig' = IF pOk THEN p.fig ELSE pie_fig
        /\ scatter_fig' = IF sOk THEN s.fig ELSE scatter_fig
        /\ error' = IF \/ ("build_pie" \in cbs /\ p.raised # "none")
                       \/ ("update_scatter" \in cbs /\ s.raised # "none")
                    THEN "CallbackError" ELSE "none"

\* ----- actions ----------------------------------------------------------
\* the startup code without the existence check, a missing file read as an
\* empty table
Startup_unchecked ==
    /\ pc = "start"
    /\ LET df == Preprocess(csv)
       IN  /\ spacex_df' = df
           /\ IF df = <<>>
              THEN /\ pc' = "aborted"
                   /\ error' = "ValueError"
                   /\ UNCHANGED stats
              ELSE /\ pc' = "ready"
                   /\ error' = "none"
                   /\ min_payload' = IntTrunc(SeqMin(Column(df, "Payload_Mass")), Scale)
                   /\ max_payload' = IntTrunc(SeqMax(Column(df, "Payload_Mass")), Scale)
                   /\ q1' = IntTrunc(Quantile4(Column(df, "Payload_Mass"), 1), 4 * Scale)
                   /\ q2' = IntTrunc(Quantile4(Column(df, "Payload_Mass"), 2), 4 * Scale)
                   /\ q3' = IntTrunc(Quantile4(Column(df, "Payload_Mass"), 3), 4 * Scale)
                   /\ site_options' = SiteOptions(df)
    /\ UNCHANGED <<fileExists, csv, site_dropdown, payload_slider,
                   pie_df, pie_fig, scatter_fig>>

\* module-level code: existence check, read_csv, pre-processing, slider
\* statistics, dropdown options, layout
Startup ==
    /\ pc = "start"
    /\ IF ~fileExists
       THEN /\ pc' = "aborted"
            /\ error' = "FileNotFoundError"
            /\ UNCHANGED <<spacex_df, stats>>
       ELSE LET df  == Preprocess(csv)
                col == Column(df, "Payload_Mass")
            IN  /\ spacex_df' = df
                /\ IF df = <<>>
                   THEN \* min() of an empty column is NaN and int(NaN) raises
                        /\ pc' = "aborted"
                        /\ error' = "ValueError"
                        /\ UNCHANGED stats
                   ELSE /\ pc' = "ready"
                        /\ error' = "none"
                        /\ min_payload' = IntTrunc(SeqMin(col), Scale)
                        /\ max_payload' = IntTrunc(SeqMax(col), Scale)
                        /\ q1' = IntTrunc(Quantile4(col, 1), 4 * Scale)
                        /\ q2' = IntTrunc(Quantile4(col, 2), 4 * Scale)
                        /\ q3' = IntTrunc(Quantile4(col, 3), 4 * Scale)
                        /\ site_options' = SiteOptions(df)
    /\ UNCHANGED <<fileExists, csv, site_dropdown, payload_slider,
                   pie_df, pie_fig, scatter_fig>>

\* a browser opens (or reloads) the page: the controls take the values of
\* the layout and every callback runs once
PageLoad ==
    /\ pc \in {"ready", "serving"}
    /\ pc' = "serving"
    /\ site_dropdown' = ALL
    /\ payload_slider' = <<min_payload, max_payload>>
    /\ RunCallbacks("page-load", site_dropdown', payload_slider')
    /\ UNCHANGED <<fileExists, csv, spacex_df, stats>>

\* the user picks an option, clears the dropdown, or a client posts a value
site_dropdown_changed(s) ==
    /\ pc = "serving"
    /\ site_dropdown' = s
    /\ RunCallbacks("site-dropdown", s, payload_slider)
    /\ UNCHANGED <<fileExists, csv, pc, spacex_df, stats, payload_slider>>

\* the slider step filtering the global table in place
payload_slider_changed_in_place(r) ==
    /\ pc = "serving"
    /\ payload_slider' = r
    /\ RunCallbacks("payload-slider", site_dropdown, r)
    /\ spacex_df' = PayloadFilter(spacex_df, r[1], r[2])
    /\ UNCHANGED <<fileExists, csv, pc, stats, site_dropdown>>

\* the user drags a handle of the range slider
payload_slider_changed(r) ==
    /\ pc = "serving"
    /\ payload_slider' = r
    /\ RunCallbacks("payload-slider", site_dropdown, r)
    /\ UNCHANGED <<fileExists, csv, pc, spacex_df, stats, site_dropdown>>

SiteValues  == Sites \cup {ALL, None}
RangeValues == {<<lo, hi>> : lo \in 0..MaxKg, hi \in 0..MaxKg}

Next ==
    \/ Startup
    \/ PageLoad
    \/ \E s \in SiteValues : site_dropdown_changed(s)
    \/ \E r \in RangeValues : payload_slider_changed(r)

Spec == Init /\ [][Next]_vars

\* ----- vocabulary of the properties -------------------------------------
\* The properties speak of the table by row index and Flight Number (the
\* row's position in the file), not through the filters of the callbacks.
Rows == DOMAIN spacex_df

InRange(j, range) ==
    /\ range[1] * Scale <= spacex_df[j].Payload_Mass
    /\ spacex_df[j].Payload_Mass <= range[2] * Scale

AtSite(j, site) == spacex_df[j].Launch_Site = site

\* seq lists exactly the rows J of the table, each once, in table order
OrderedSelection(seq, J) ==
    /\ Len(seq) = Cardinality(J)
    /\ \A i \in DOMAIN seq :
          /\ seq[i].Flight_Number \in J
          /\ seq[i].Launch_Site = spacex_df[seq[i].Flight_Number].Launch_Site
    /\ \A i, k \in DOMAIN seq : i < k => seq[i].Flight_Number < seq[k].Flight_Number

\* C1: every point of the scatter chart has low <= payload mass <= high
\* (both inclusive), and no row of the selected site (of any site for 'ALL')
\* whose payload mass lies in [low, high] is missing from the chart.
C1_PayloadRangeInclusive ==
    pc = "serving" =>
        LET low   == payload_slider[1]
            high  == payload_slider[2]
            shown == {scatter_fig[i].Flight_Number : i \in DOMAIN scatter_fig}
        IN  /\ \A i \in DOMAIN scatter_fig :
                  /\ low * Scale <= scatter_fig[i].x
                  /\ scatter_fig[i].x <= high * Scale
                  /\ scatter_fig[i].x = spacex_df[scatter_fig[i].Flight_Number].Payload_Mass
            /\ \A j \in Rows :
                  (/\ site_dropdown = ALL \/ AtSite(j, site_dropdown)
                   /\ InRange(j, payload_slider))
                  => spacex_df[j].Flight_Number \in shown

\* a point sits on the upper bound, a point sits on the lower bound, and a row
\* of the table was left out
C1_Witness ==
    /\ pc = "serving"
    /\ \E i \in DOMAIN scatter_fig : scatter_fig[i].x = payload_slider[2] * Scale
    /\ \E i \in DOMAIN scatter_fig : scatter_fig[i].x = payload_slider[1] * Scale
    /\ \E j \in Rows : ~InRange(j, payload_slider)

\* C2: for a site value s other than 'ALL', the frame build_pie charts is
\* exactly the rows of site s in table order, and the points update_scatter
\* charts are exactly the rows of site s within the payload range, in order.
C2_SiteFilterExact ==
    (pc = "serving" /\ site_dropdown # ALL) =>
        /\ OrderedSelection(pie_df, {j \in Rows : AtSite(j, site_dropdown)})
        /\ OrderedSelection(scatter_fig,
              {j \in Rows : AtSite(j, site_dropdown) /\ InRange(j, payload_slider)})

\* a site is selected, the table holds a row of another site, and both
\* charts show a row
C2_Witness ==
    /\ pc = "serving"
    /\ site_dropdown \in Sites
    /\ \E j \in Rows : ~AtSite(j, site_dropdown)
    /\ Len(pie_df) >= 1
    /\ Len(scatter_fig) >= 1

\* C3: with the sentinel 'ALL' update_scatter applies no site restriction:
\* the points are exactly the rows within the payload range, in table order.
C3_AllSitesNoRestriction ==
    (pc = "serving" /\ site_dropdown = ALL) =>
        OrderedSelection(scatter_fig, {j \in Rows : InRange(j, payload_slider)})

\* 'ALL' is selected and the chart shows rows of two different sites
C3_Witness ==
    /\ pc = "serving"
    /\ site_dropdown = ALL
    /\ \E i, k \in DOMAIN scatter_fig :
          scatter_fig[i].Launch_Site # scatter_fig[k].Launch_Site

\* C4: in the 'ALL' case the pie has one slice per site with a success,
\* its value is the number of successful rows of that site, and the slice
\* values sum to the number of successful rows of the table.
C4_SuccessCountsSum ==
    (pc = "serving" /\ site_dropdown = ALL) =>
        /\ \A s \in Sites :
              SliceValue(pie_fig, s) =
                  Cardinality({j \in Rows : AtSite(j, s) /\ spacex_df[j].class = 1})
        /\ \A i \in DOMAIN pie_fig.labels :
              pie_fig.labels[i] \in Sites /\ pie_fig.values[i] >= 1
        /\ \A i, k \in DOMAIN pie_fig.labels :
              i # k => pie_fig.labels[i] # pie_fig.labels[k]
        /\ SumSeq(pie_fig.values) =
              Cardinality({j \in Rows : spacex_df[j].class = 1})

\* 'ALL' is selected, the table holds a failure, and a site has a slice
C4_Witness ==
    /\ pc = "serving"
    /\ site_dropdown = ALL
    /\ \E j \in Rows : spacex_df[j].class = 0
    /\ Len(pie_fig.labels) >= 1

\* C5: for a single-site selection s the Success slice counts the rows of s
\* with class 1, the Failure slice counts the rows of s with class 0, and the
\* rows of other sites count in neither.
C5_OutcomeCounts ==
    (pc = "serving" /\ site_dropdown # ALL) =>
        /\ SliceValue(pie_fig, "Success") =
              Cardinality({j \in Rows : AtSite(j, site_dropdown)
                                        /\ spacex_df[j].class = 1})
        /\ SliceValue(pie_fig, "Failure") =
              Cardinality({j \in Rows : AtSite(j, site_dropdown)
                                        /\ spacex_df[j].class = 0})
        /\ \A i \in DOMAIN pie_fig.labels :
              pie_fig.labels[i] \in {"Success", "Failure"}

\* the fixture: two rows of one site, one success and one failure, give
\* {Success: 1, Failure: 1}
C5_Witness ==
    /\ pc = "serving"
    /\ site_dropdown \in Sites
    /\ Len(spacex_df) = 2
    /\ \A j \in Rows : AtSite(j, site_dropdown)
    /\ {spacex_df[j].class : j \in Rows} = {0, 1}
    /\ SliceValue(pie_fig, "Success") = 1
    /\ SliceValue(pie_fig, "Failure") = 1

\* C6: when the data file is absent the process gets no further than the
\* fatal FileNotFoundError: no table is loaded, no statistic or option is
\* computed, no layout value is set and no callback has produced a figure.
C6_MissingFileFatal ==
    ~fileExists =>
        /\ pc \in {"start", "aborted"}
        /\ pc = "aborted" => error = "FileNotFoundError"
        /\ pc = "start" => error = "none"
        /\ spacex_df = <<>>
        /\ min_payload = Unbound /\ max_payload = Unbound
        /\ q1 = Unbound /\ q2 = Unbound /\ q3 = Unbound
        /\ site_options = <<>>
        /\ payload_slider = <<>>
        /\ pie_df = <<>> /\ pie_fig = NoFig /\ scatter_fig = <<>>

\* the startup code ran without the file and aborted
C6_Witness == ~fileExists /\ pc = "aborted" /\ error = "FileNotFoundError"

C8_TableImmutable ==
    [][pc # "start" =>
          /\ spacex_df' = spacex_df
          /\ spacex_df = Preprocess(csv)
          /\ stats' = stats]_vars

\* callbacks have filtered rows away for a chart and the table is still the
\* one that was loaded
C8_Witness ==
    /\ pc = "serving"
    /\ site_dropdown \in Sites
    /\ Len(spacex_df) = MaxRows
    /\ Len(scatter_fig) < Len(spacex_df)
    /\ Len(pie_df) < Len(spacex_df)
    /\ spacex_df = Preprocess(csv)

\* C9: after any sequence of interactions the pie chart is build_pie of the
\* current site value alone and the scatter chart is update_scatter of the
\* current site value and payload range.
C9_ChartsFollowControls ==
    pc = "serving" =>
        /\ pie_fig = build_pie(site_dropdown).fig
        /\ pie_df = build_pie(site_dropdown).frame
        /\ scatter_fig = update_scatter(site_dropdown, payload_slider).fig

\* both controls were moved away from their initial values and the charts
\* show rows
C9_Witness ==
    /\ pc = "serving"
    /\ site_dropdown \in Sites
    /\ payload_slider # <<min_payload, max_payload>>
    /\ Len(scatter_fig) >= 1
    /\ Len(pie_df) > Len(scatter_fig)

\* C10: with the controls at their initial values (site 'ALL', slider
\* [min_payload, max_payload]) the scatter chart shows every row of the table.
C10_FullRangeShowsAll ==
    (/\ pc = "serving"
     /\ site_dropdown = ALL
     /\ payload_slider = <<min_payload, max_payload>>)
        => Len(scatter_fig) = Len(spacex_df)

=============================================================================
